---- MODULE Spec2Model ----
(***************************************************************************)
(* Model of the two command-line clients of the repository:                *)
(*   scripts/prompt_llm.py   - the prompt tool                             *)
(*   scripts/test_llm_api.py - the endpoint test harness                   *)
(*                                                                         *)
(* Conventions.                                                            *)
(*  - A Python Optional value is a sequence of length 0 (None) or 1.       *)
(*  - A Python float option is an integer number of hundredths             *)
(*    (1.0 is 100); elapsed wall-clock time is the double the program     *)
(*    computes, with its significand and exponent.                         *)
(*  - A dict the program builds (namespace, payload) is a function on its  *)
(*    keys. A value parsed from the reply of the prompt tool's request     *)
(*    carries its JSON type, and an operation Python refuses on that type  *)
(*    ends the run with the exception it raises.                           *)
(*  - Standard output is a sequence of records; `kind` names the line.     *)
(*  - The server is the environment: its behaviour is fixed in the         *)
(*    initial state and read when a request is issued.                     *)
(***************************************************************************)
EXTENDS Integers, Sequences, FiniteSets, TLC

VARIABLES
    argv,           \* prompt tool: the command line as given (never changes)
    args,           \* prompt tool: argparse namespace (main mutates args.stream)
    pc,             \* prompt tool: position in main()
    requests,       \* prompt tool: HTTP requests issued so far
    output,         \* prompt tool: lines printed so far
    exit_code,      \* prompt tool: None while running, else the exit status
    response,       \* prompt tool: parsed response body (None before it arrives)
    elapsed_time,   \* prompt tool: measured latency, a double
    server,         \* prompt tool: behaviour of the inference server
    t_args,         \* harness: argparse namespace
    t_pc,           \* harness: position in main()
    t_requests,     \* harness: HTTP requests issued so far
    t_output,       \* harness: lines printed so far
    results,        \* harness: list of (name, success)
    t_exit_code,    \* harness: None while running, else the exit status
    t_server        \* harness: behaviour of the server per endpoint

promptVars == <<argv, args, pc, requests, output, exit_code, response, elapsed_time, server>>
harnessVars == <<t_args, t_pc, t_requests, t_output, results, t_exit_code, t_server>>
vars == <<argv, args, pc, requests, output, exit_code, response, elapsed_time, server,
          t_args, t_pc, t_requests, t_output, results, t_exit_code, t_server>>

-----------------------------------------------------------------------------
(* Bounds of the model *)

MaxChoices == 2
MaxCompletionTokens == 2
\* elapsed times are taken at multiples of TickStride ticks (1678 ticks are 0.0004 s)
MaxElapsedSteps == 3
TickStride == 1678
\* a reply of 1 token in 40 s: the quotient 0.025 lies halfway between two hundredths
HalfwayElapsedTicks == 167772160

-----------------------------------------------------------------------------
(* Python values *)

None == <<>>
Some(v) == <<v>>

\* bool(x) of an Optional[int]: None and 0 are falsy
TruthyInt(o) == o # None /\ o[1] # 0
\* bool(x) of an Optional[str]: None and "" are falsy
TruthyStr(o) == o # None /\ o[1] # ""
\* bool(x) of an Optional[List[str]]: None and [] are falsy
TruthyList(o) == o # None /\ Len(o[1]) > 0

\* {} as a dict
EmptyDict == [k \in {} |-> 0]
\* dict.get(key, default)
DictGet(d, key, default) == IF key \in DOMAIN d THEN d[key] ELSE default
\* the entry key: val when cond holds, nothing otherwise
Entry(cond, key, val) == IF cond THEN key :> val ELSE EmptyDict

-----------------------------------------------------------------------------
(* prompt_llm.py: argparse defaults *)

DefaultUrl == "http://localhost:8000"
DefaultModel == "meta-llama/Meta-Llama-3.1-8B-Instruct"
DefaultMaxTokens == 512
DefaultMinTokens == 0
DefaultTemperature == 70
DefaultTopP == 100
DefaultTopK == -1
DefaultFrequencyPenalty == 0
DefaultPresencePenalty == 0
DefaultRepetitionPenalty == 100
DefaultN == 1
DefaultLengthPenalty == 100
PromptTimeout == 60
ArgparseErrorStatus == 2
RequestErrorStatus == 1
\* the status of an interpreter that ends on an exception nothing caught
UncaughtExceptionStatus == 1

\* the namespaces parse_args can return, the varied options drawn from the given sets
Namespaces(modes, prompts, systems, users, topks, reps, stops, bestofs, logps, mins, beams, lens, streams, metas, jsons) ==
    [url : {DefaultUrl}, model : {DefaultModel},
     mode : modes, prompt : prompts, system : systems, user_message : users,
     max_tokens : {DefaultMaxTokens}, min_tokens : mins,
     temperature : {DefaultTemperature}, top_p : {DefaultTopP}, top_k : topks,
     frequency_penalty : {DefaultFrequencyPenalty},
     presence_penalty : {DefaultPresencePenalty},
     repetition_penalty : reps, stop : stops, n : {DefaultN},
     best_of : bestofs, use_beam_search : beams, length_penalty : lens,
     echo : {FALSE}, logprobs : logps, stream : streams,
     show_metadata : metas, json : jsons]

Modes == {"completion", "chat"}
OptTexts(s) == {None, Some(""), Some(s)}

\* every option that the payload builders treat conditionally, varied independently
BuilderNamespaces ==
    Namespaces(Modes, {Some("p")}, {None}, {Some("u")},
               {DefaultTopK, 0, 40}, {DefaultRepetitionPenalty, 120},
               {None, Some(<<"END">>)}, {None, Some(0), Some(2)},
               {None, Some(0), Some(5)}, {DefaultMinTokens, 5}, BOOLEAN,
               {DefaultLengthPenalty, 150}, BOOLEAN, {FALSE}, BOOLEAN)

\* the options at their defaults, or all of them set
MainNamespaces ==
    Namespaces(Modes, OptTexts("p"), OptTexts("s"), OptTexts("u"),
               {DefaultTopK}, {DefaultRepetitionPenalty}, {None}, {None},
               {None}, {DefaultMinTokens}, {FALSE}, {DefaultLengthPenalty},
               BOOLEAN, BOOLEAN, BOOLEAN)
    \cup
    Namespaces(Modes, OptTexts("p"), OptTexts("s"), OptTexts("u"),
               {40}, {120}, {Some(<<"END">>)}, {Some(2)},
               {Some(5)}, {5}, {TRUE}, {150},
               BOOLEAN, BOOLEAN, BOOLEAN)

-----------------------------------------------------------------------------
(* JSON values, as response.json() hands them to main *)
(* Every value carries its type, so null, {} and [] stay apart. A number is  *)
(* an integer or a finite float; a float is JFloat, the decimal numeral      *)
(* val / 10^digits as the reply writes it or the program prints it, negative *)
(* also for -0.0.                                                            *)

JNull == [type |-> "null"]
JBool(b) == [type |-> "bool", val |-> b]
JInt(n) == [type |-> "int", val |-> n]
JStr(s) == [type |-> "str", val |-> s]
JList(s) == [type |-> "list", val |-> s]
JDict(d) == [type |-> "dict", val |-> d]
JFloat(negative, val, digits) == [type |-> "float", negative |-> negative, val |-> val, digits |-> digits]

\* int, float and bool (True is 1, False is 0) compare and divide as numbers
IsNumber(v) == v.type \in {"int", "bool", "float"}
\* the int of an int or a bool
IntOf(v) == IF v.type = "bool" THEN (IF v.val THEN 1 ELSE 0) ELSE v.val
\* v > 0 of a number
number_positive(v) == IF v.type = "float" THEN ~v.negative /\ v.val > 0 ELSE IntOf(v) > 0

\* bool(v)
Truthy(v) ==
    CASE v.type = "null" -> FALSE
      [] v.type = "bool" -> v.val
      [] v.type = "int" -> v.val # 0
      [] v.type = "float" -> v.val # 0
      [] v.type = "str" -> v.val # ""
      [] v.type = "list" -> Len(v.val) > 0
      [] v.type = "dict" -> DOMAIN v.val # {}

\* `key in v` and len(v) raise TypeError unless v is a dict, a list or a str
IsContainer(v) == v.type \in {"dict", "list", "str"}

\* key in v: a key of the dict, an element of the list, a substring of the str
Contains(v, key) ==
    CASE v.type = "dict" -> key \in DOMAIN v.val
      [] v.type = "list" -> \E i \in 1..Len(v.val) : v.val[i].type = "str" /\ v.val[i].val = key
      [] v.type = "str" ->
            \E i \in 1..(Len(v.val) - Len(key) + 1) : SubSeq(v.val, i, i + Len(key) - 1) = key
      [] OTHER -> FALSE

\* len(v) of a container
PyLen(v) == IF v.type = "dict" THEN Cardinality(DOMAIN v.val) ELSE Len(v.val)

\* the exception v[key] raises for a str key: KeyError when the dict lacks it,
\* TypeError when v is no dict; "" when it raises none
SubscriptError(v, key) ==
    IF v.type # "dict" THEN "TypeError"
    ELSE IF key \notin DOMAIN v.val THEN "KeyError"
    ELSE ""

-----------------------------------------------------------------------------
(* The inference server, as the prompt tool sees it *)

\* connection failure, timeout, 4xx/5xx status: what requests.post or
\* raise_for_status raise as a RequestException
RequestFailures == {"connection_error", "timeout", "http_error"}

\* the status codes of the reply that ends the request: success, a 3xx reply that
\* leads to no redirection, a client error and a server error
ReplyStatuses == {200, 300, 404, 503}

\* response.raise_for_status() raises HTTPError for a 4xx or 5xx status and returns
\* for every other one
raise_for_status(status) == status >= 400 /\ status < 600

\* the `usage` entry of a reply object:
\*   "absent" - no such key            "null" - usage: null
\*   "prompt_only" - an object without completion_tokens
\*   "null_count" - an object whose completion_tokens is null
\*   "counts" - an object with the three counts, completion_tokens = tokens
\*   "float_count" - the same with completion_tokens written as a float, tokens
\*                   halves: 0.0, 0.5, 1.0, ...
Usages ==
    [kind : {"absent", "null", "prompt_only", "null_count"}, tokens : {0}]
    \cup [kind : {"counts", "float_count"}, tokens : 0..MaxCompletionTokens]

\* the `choices` entry of a reply object:
\*   "absent" - no such key            "null" - choices: null
\*   "list" - a list of n well-formed choices
\*   "incomplete" - a list of one choice without text / message.content
ChoicesShapes ==
    [kind : {"absent", "null", "incomplete"}, n : {0}]
    \cup [kind : {"list"}, n : 0..MaxChoices]

\* the elapsed times measured, in ticks: the clock set back, no time at all, multiples
\* of TickStride (0.0004 s, 0.0008 s, ...) and the time of the halfway reply
ElapsedTicks ==
    {-1, 0} \cup {i * TickStride : i \in 1..MaxElapsedSteps} \cup {HalfwayElapsedTicks}

\* What the server does with the request. `status` is the status code of its reply,
\* 0 when none arrives. outcome "ok": a reply that raise_for_status lets through and
\* whose body is JSON: an object with `choices` and `usage` as above (body "object"),
\* null (body "null") or [] (body "list"); "http_error": a reply that
\* raise_for_status rejects; "invalid_json": a reply whose body is no JSON.
ServerBehaviours ==
    [outcome : {"ok"}, status : {200}, body : {"object"}, choices : ChoicesShapes,
     usage : Usages, elapsed : ElapsedTicks]
    \cup [outcome : {"ok"}, status : {200}, body : {"null", "list"},
          choices : {[kind |-> "absent", n |-> 0]},
          usage : {[kind |-> "absent", tokens |-> 0]}, elapsed : {0, TickStride}]
    \cup [outcome : {"ok"}, status : {st \in ReplyStatuses \ {200} : ~raise_for_status(st)},
          body : {"object"},
          choices : {[kind |-> "absent", n |-> 0], [kind |-> "list", n |-> 1]},
          usage : {[kind |-> "absent", tokens |-> 0], [kind |-> "counts", tokens |-> 1]},
          elapsed : {TickStride}]
    \cup [outcome : {"http_error"}, status : {st \in ReplyStatuses : raise_for_status(st)},
          body : {"object"}, choices : {[kind |-> "absent", n |-> 0]},
          usage : {[kind |-> "absent", tokens |-> 0]}, elapsed : {TickStride}]
    \cup [outcome : {"invalid_json"}, status : {200}, body : {"object"},
          choices : {[kind |-> "absent", n |-> 0]},
          usage : {[kind |-> "absent", tokens |-> 0]}, elapsed : {TickStride}]
    \cup [outcome : {"connection_error", "timeout"}, status : {0}, body : {"object"},
          choices : {[kind |-> "absent", n |-> 0]},
          usage : {[kind |-> "absent", tokens |-> 0]}, elapsed : {TickStride}]

BuilderServerBehaviours ==
    {s \in ServerBehaviours :
        /\ s.outcome \in {"ok", "http_error"}
        /\ s.outcome = "ok" =>
              /\ s.status = 200
              /\ s.body = "object"
              /\ s.choices = [kind |-> "list", n |-> 1]
              /\ s.usage = [kind |-> "absent", tokens |-> 0]
              /\ s.elapsed = TickStride}

\* the text the server generates for choice i
GeneratedText(i) == IF i = 1 THEN "first text" ELSE IF i = 2 THEN "second text" ELSE "another text"

\* one choice object of the reply of the given endpoint
Choice(endpoint, i) ==
    IF endpoint = "/v1/chat/completions"
    THEN JDict([index |-> JInt(i - 1), finish_reason |-> JStr("stop"),
                message |-> JDict([role |-> JStr("assistant"), content |-> JStr(GeneratedText(i))])])
    ELSE JDict([index |-> JInt(i - 1), finish_reason |-> JStr("stop"),
                text |-> JStr(GeneratedText(i))])

\* the value of `choices` in the reply
ChoicesValue(c, endpoint) ==
    IF c.kind = "null" THEN JNull
    ELSE IF c.kind = "incomplete"
    THEN JList(<<JDict([index |-> JInt(0), finish_reason |-> JStr("stop")])>>)
    ELSE JList([i \in 1..c.n |-> Choice(endpoint, i)])

\* the value of `usage` in the reply
UsageValue(u) ==
    CASE u.kind = "null" -> JNull
      [] u.kind = "prompt_only" -> JDict([prompt_tokens |-> JInt(5)])
      [] u.kind = "null_count" ->
            JDict([prompt_tokens |-> JInt(5), completion_tokens |-> JNull, total_tokens |-> JInt(5)])
      [] u.kind = "float_count" ->
            JDict([prompt_tokens |-> JInt(5), completion_tokens |-> JFloat(FALSE, 5 * u.tokens, 1),
                   total_tokens |-> JFloat(FALSE, 50 + 5 * u.tokens, 1)])
      [] OTHER ->
            JDict([prompt_tokens |-> JInt(5), completion_tokens |-> JInt(u.tokens),
                   total_tokens |-> JInt(5 + u.tokens)])

\* the JSON body the server sends for the endpoint
ServerBody(s, endpoint) ==
    IF s.outcome # "ok" THEN JDict("error" :> JStr("request rejected"))
    ELSE IF s.body = "null" THEN JNull
    ELSE IF s.body = "list" THEN JList(<<>>)
    ELSE JDict(Entry(s.choices.kind # "absent", "choices", ChoicesValue(s.choices, endpoint))
               @@ Entry(s.usage.kind # "absent", "usage", UsageValue(s.usage))
               @@ ("object" :> JStr("completion")))

-----
(* prompt_llm.py: the payload builders inside prompt_completion / prompt_chat *)

\* the conditions under which an optional field is added
include_top_k(top_k) == top_k > 0
include_repetition_penalty(repetition_penalty) == repetition_penalty # 100
include_stop(stop) == TruthyList(stop)
include_best_of(best_of) == TruthyInt(best_of)
\* variant: tests `is not None` where the code tests truthiness
include_logprobs_not_none(logprobs) == logprobs # None
include_logprobs(logprobs) == TruthyInt(logprobs)
include_min_tokens(min_tokens) == min_tokens > 0
include_beam_search(use_beam_search) == use_beam_search

\* the keyword arguments main passes to prompt_completion
completion_kwargs(a) ==
    [base_url |-> a.url, model_name |-> a.model, prompt |-> a.prompt[1],
     max_tokens |-> a.max_tokens, temperature |-> a.temperature, top_p |-> a.top_p,
     top_k |-> a.top_k, frequency_penalty |-> a.frequency_penalty,
     presence_penalty |-> a.presence_penalty,
     repetition_penalty |-> a.repetition_penalty, stop |-> a.stop,
     stream |-> a.stream, n |-> a.n, best_of |-> a.best_of, logprobs |-> a.logprobs,
     echo |-> a.echo, min_tokens |-> a.min_tokens,
     use_beam_search |-> a.use_beam_search, length_penalty |-> a.length_penalty]

\* the keyword arguments main passes to prompt_chat
chat_kwargs(a) ==
    [base_url |-> a.url, model_name |-> a.model, system_message |-> a.system,
     user_message |-> a.user_message[1],
     max_tokens |-> a.max_tokens, temperature |-> a.temperature, top_p |-> a.top_p,
     top_k |-> a.top_k, frequency_penalty |-> a.frequency_penalty,
     presence_penalty |-> a.presence_penalty,
     repetition_penalty |-> a.repetition_penalty, stop |-> a.stop,
     stream |-> a.stream, n |-> a.n, logprobs |-> a.logprobs]

\* the payload prompt_completion builds from its parameters
completion_payload(kw) ==
    [model |-> kw.model_name, prompt |-> kw.prompt, max_tokens |-> kw.max_tokens,
     temperature |-> kw.temperature, top_p |-> kw.top_p,
     frequency_penalty |-> kw.frequency_penalty,
     presence_penalty |-> kw.presence_penalty, stream |-> kw.stream, n |-> kw.n,
     echo |-> kw.echo]
    @@ Entry(include_top_k(kw.top_k), "top_k", kw.top_k)
    @@ Entry(include_repetition_penalty(kw.repetition_penalty),
             "repetition_penalty", kw.repetition_penalty)
    @@ Entry(include_stop(kw.stop), "stop", IF kw.stop = None THEN <<>> ELSE kw.stop[1])
    @@ Entry(include_best_of(kw.best_of), "best_of",
             IF kw.best_of = None THEN 0 ELSE kw.best_of[1])
    @@ Entry(include_logprobs(kw.logprobs), "logprobs",
             IF kw.logprobs = None THEN 0 ELSE kw.logprobs[1])
    @@ Entry(include_min_tokens(kw.min_tokens), "min_tokens", kw.min_tokens)
    @@ Entry(include_beam_search(kw.use_beam_search), "use_beam_search", kw.use_beam_search)
    @@ Entry(include_beam_search(kw.use_beam_search), "length_penalty", kw.length_penalty)

\* variant: tests `is not None` where the code tests truthiness
chat_messages_not_none(system_message, user_message) ==
    (IF system_message # None
     THEN <<[role |-> "system", content |-> system_message[1]]>> ELSE <<>>)
    \o <<[role |-> "user", content |-> user_message]>>

\* the messages list prompt_chat assembles
chat_messages(system_message, user_message) ==
    (IF TruthyStr(system_message)
     THEN <<[role |-> "system", content |-> system_message[1]]>> ELSE <<>>)
    \o <<[role |-> "user", content |-> user_message]>>

\* the payload prompt_chat builds from its parameters
chat_payload(kw) ==
    [model |-> kw.model_name,
     messages |-> chat_messages(kw.system_message, kw.user_message),
     max_tokens |-> kw.max_tokens, temperature |-> kw.temperature, top_p |-> kw.top_p,
     frequency_penalty |-> kw.frequency_penalty,
     presence_penalty |-> kw.presence_penalty, stream |-> kw.stream, n |-> kw.n]
    @@ Entry(include_top_k(kw.top_k), "top_k", kw.top_k)
    @@ Entry(include_repetition_penalty(kw.repetition_penalty),
             "repetition_penalty", kw.repetition_penalty)
    @@ Entry(include_stop(kw.stop), "stop", IF kw.stop = None THEN <<>> ELSE kw.stop[1])
    @@ Entry(include_logprobs(kw.logprobs), "logprobs",
             IF kw.logprobs = None THEN 0 ELSE kw.logprobs[1])

-----------------------------------------------------------------------------
(* prompt_llm.py: rendering *)

Line(kind, arg) == [kind |-> kind, arg |-> arg]

(* IEEE-754 binary64 arithmetic, as far as main and print_response use it.   *)
(* A natural number below 2^60 is a tuple of four limbs of 15 bits, the      *)
(* least significant first. A positive double is [m, e]: the 53-bit          *)
(* significand m (2^52 <= m < 2^53, as limbs) and e, for the value m / 2^e.  *)
(* elapsed_time is a double with its sign: [neg, m, e], zero having m = 0.   *)
(* time.time() is a double counting seconds since 1970: from 2004 to 2038    *)
(* it lies between 2^30 and 2^31, where doubles are 2^-22 s apart, and the   *)
(* difference of two readings is an exact multiple of 2^-22 s: the server    *)
(* takes a number of these ticks, negative when the clock was set back.      *)

\* ticks per second
ClockResolution == 2^22

LimbBase == 2^15

BigOfInt(n) == <<n % LimbBase, (n \div LimbBase) % LimbBase, n \div (LimbBase * LimbBase), 0>>
BigToInt(x) == x[1] + x[2] * LimbBase + x[3] * LimbBase * LimbBase

\* 2 * x + bit
BigDouble(x, bit) ==
    LET t1 == 2 * x[1] + bit
        t2 == 2 * x[2] + t1 \div LimbBase
        t3 == 2 * x[3] + t2 \div LimbBase
        t4 == 2 * x[4] + t3 \div LimbBase
    IN  <<t1 % LimbBase, t2 % LimbBase, t3 % LimbBase, t4>>

\* x \div 2
BigHalve(x) ==
    <<(x[1] + (x[2] % 2) * LimbBase) \div 2, (x[2] + (x[3] % 2) * LimbBase) \div 2,
      (x[3] + (x[4] % 2) * LimbBase) \div 2, x[4] \div 2>>

\* x * k for a small k
BigTimes(x, k) ==
    LET t1 == x[1] * k
        t2 == x[2] * k + t1 \div LimbBase
        t3 == x[3] * k + t2 \div LimbBase
        t4 == x[4] * k + t3 \div LimbBase
    IN  <<t1 % LimbBase, t2 % LimbBase, t3 % LimbBase, t4>>

\* x + 1
BigInc(x) ==
    LET t1 == x[1] + 1
        t2 == x[2] + t1 \div LimbBase
        t3 == x[3] + t2 \div LimbBase
        t4 == x[4] + t3 \div LimbBase
    IN  <<t1 % LimbBase, t2 % LimbBase, t3 % LimbBase, t4>>

\* x - y for x >= y
BigSub(x, y) ==
    LET d1 == x[1] - y[1]
        b1 == IF d1 < 0 THEN 1 ELSE 0
        d2 == x[2] - y[2] - b1
        b2 == IF d2 < 0 THEN 1 ELSE 0
        d3 == x[3] - y[3] - b2
        b3 == IF d3 < 0 THEN 1 ELSE 0
    IN  <<d1 + b1 * LimbBase, d2 + b2 * LimbBase, d3 + b3 * LimbBase, x[4] - y[4] - b3>>

\* x >= y
BigGeq(x, y) ==
    IF x[4] # y[4] THEN x[4] > y[4]
    ELSE IF x[3] # y[3] THEN x[3] > y[3]
    ELSE IF x[2] # y[2] THEN x[2] > y[2]
    ELSE x[1] >= y[1]

BigOdd(x) == x[1] % 2 = 1
\* x >= 2^52: x has the 53 bits of a significand
BigNormal(x) == x[4] >= 2^7

\* the double q / 2^e, or the next one up when the discarded bits round up
RoundSignificand(q, roundUp, e) ==
    LET m == IF roundUp THEN BigInc(q) ELSE q
    IN  IF m[4] >= 2^8 THEN [m |-> BigHalve(m), e |-> e - 1] ELSE [m |-> m, e |-> e]

\* one doubling of s.m towards a 53-bit significand
NormalizeStep(s) == IF BigNormal(s.m) THEN s ELSE [m |-> BigDouble(s.m, 0), e |-> s.e + 1]

RECURSIVE Normalize(_)
Normalize(s) ==
    IF BigNormal(s.m) THEN s
    ELSE Normalize(NormalizeStep(NormalizeStep(s)))

\* elapsed_time = time.time() - start_time for readings `ticks` apart, |ticks| < 2^31
FloatOfTicks(ticks) ==
    IF ticks = 0 THEN [neg |-> FALSE, m |-> BigOfInt(0), e |-> 0]
    ELSE LET f == Normalize([m |-> BigOfInt(IF ticks < 0 THEN 0 - ticks ELSE ticks), e |-> 22])
         IN  [neg |-> ticks < 0, m |-> f.m, e |-> f.e]

\* elapsed_time > 0
float_positive(f) == ~f.neg /\ f.m # BigOfInt(0)

\* one more bit of n * 2^e / m by long division (s.q quotient so far, s.r remainder),
\* until s.q has 53 bits
DivStep(s, m) ==
    IF BigNormal(s.q) THEN s
    ELSE LET r2 == BigDouble(s.r, 0)
             ge == BigGeq(r2, m)
         IN  [q |-> BigDouble(s.q, IF ge THEN 1 ELSE 0), r |-> IF ge THEN BigSub(r2, m) ELSE r2, e |-> s.e + 1]

RECURSIVE DivBits(_, _)
DivBits(s, m) ==
    IF BigNormal(s.q) THEN s
    ELSE DivBits(DivStep(DivStep(s, m), m), m)

\* the double x / y of two positive doubles: the quotient of the significands,
\* which lies between 1/2 and 2, to 53 bits, ties to even
FloatDiv(x, y) ==
    LET first == BigGeq(x.m, y.m)
        s == DivBits([q |-> BigOfInt(IF first THEN 1 ELSE 0),
                      r |-> IF first THEN BigSub(x.m, y.m) ELSE x.m, e |-> 0], y.m)
        r2 == BigDouble(s.r, 0)
        up == IF r2 = y.m THEN BigOdd(s.q) ELSE BigGeq(r2, y.m)
    IN  RoundSignificand(s.q, up, s.e + x.e - y.e)

\* float(n) of an integer 0 < n < 2^31
FloatOfInt(n) == Normalize([m |-> BigOfInt(n), e |-> 0])

\* the double json.loads reads from the numeral val / 10^digits, 0 < val < 2^31 and
\* digits <= 9: the double nearest to it, which is the quotient of the two integers
FloatOfDecimal(val, digits) == FloatDiv(FloatOfInt(val), FloatOfInt(10^digits))

\* the double of a positive number of the reply, as `/` converts it
FloatOfNumber(v) ==
    IF v.type = "float" THEN FloatOfDecimal(v.val, v.digits) ELSE FloatOfInt(IntOf(v))

\* one bit shifted out of s.v: half is the bit shifted out last, sticky the bits before
ShiftStep(s) ==
    IF s.k = 0 THEN s
    ELSE [v |-> BigHalve(s.v), k |-> s.k - 1, half |-> BigOdd(s.v), sticky |-> s.sticky \/ s.half]

\* v / 2^k rounded half-even
RECURSIVE ShiftRound(_)
ShiftRound(s) ==
    IF s.k = 0
    THEN BigToInt(s.v) + (IF s.half /\ (s.sticky \/ BigOdd(s.v)) THEN 1 ELSE 0)
    ELSE ShiftRound(ShiftStep(ShiftStep(s)))

\* round(x, 2) and f"{x:.2f}" of a double 2^-31 < x < 2^24, in hundredths: the exact
\* binary value to the nearest hundredth, ties to even
RoundHundredths(x) == ShiftRound([v |-> BigTimes(x.m, 100), k |-> x.e, half |-> FALSE, sticky |-> FALSE])

\* round(x, 3) and f"{x:.3f}" of |x| for a double |x| < 2^21, in thousandths
RoundThousandths(x) == ShiftRound([v |-> BigTimes(x.m, 1000), k |-> x.e, half |-> FALSE, sticky |-> FALSE])

\* completion_tokens / elapsed_time to 2 decimals, in hundredths of a token per
\* second, for a number completion_tokens >= 0 of the reply, elapsed_time > 0 and a
\* result below 2^31
tokens_per_sec(completion_tokens, elapsed) ==
    IF ~number_positive(completion_tokens) THEN 0
    ELSE RoundHundredths(FloatDiv(FloatOfNumber(completion_tokens), elapsed))

\* round(elapsed_time, 3) and f"{elapsed_time:.3f}"; a negative time that rounds to
\* zero is -0.0
request_latency(elapsed) == JFloat(elapsed.neg, RoundThousandths(elapsed), 3)

\* what a step printed and the exception that ended it ("" when it returned)
Returned(out) == [out |-> out, exc |-> ""]
Raised(out, exc) == [out |-> out, exc |-> exc]

\* the condition under which main reports a throughput in the _timing object
timing_has_rate(completion_tokens, elapsed) ==
    float_positive(elapsed) /\ number_positive(completion_tokens)

\* the value of _timing.tokens_per_second main computes, or the exception its
\* evaluation raises: `elapsed_time > 0 and ...` reads the reply only when
\* elapsed_time > 0; response.get and usage.get need dicts, `> 0` a number
timing_tokens_per_second(resp, elapsed) ==
    IF ~float_positive(elapsed) THEN [val |-> JNull, exc |-> ""]
    ELSE IF resp.type # "dict" THEN [val |-> JNull, exc |-> "AttributeError"]
    ELSE LET usage == DictGet(resp.val, "usage", JDict(EmptyDict))
         IN  IF usage.type # "dict" THEN [val |-> JNull, exc |-> "AttributeError"]
             ELSE LET ct == DictGet(usage.val, "completion_tokens", JInt(0))
                  IN  IF ~IsNumber(ct) THEN [val |-> JNull, exc |-> "TypeError"]
                      ELSE IF timing_has_rate(ct, elapsed)
                      THEN [val |-> JFloat(FALSE, tokens_per_sec(ct, elapsed), 2),
                            exc |-> ""]
                      ELSE [val |-> JNull, exc |-> ""]

\* the object main prints under --json, or the exception raised on the way:
\* response.copy() needs a dict or a list, and a list takes no "_timing" key
response_with_timing(resp, elapsed) ==
    IF resp.type \notin {"dict", "list"} THEN [val |-> JNull, exc |-> "AttributeError"]
    ELSE LET tps == timing_tokens_per_second(resp, elapsed)
         IN  IF tps.exc # "" THEN [val |-> JNull, exc |-> tps.exc]
             ELSE IF resp.type = "list" THEN [val |-> JNull, exc |-> "TypeError"]
             ELSE [val |-> JDict(("_timing" :> JDict([request_latency_seconds |-> request_latency(elapsed),
                                                      tokens_per_second |-> tps.val]))
                                 @@ resp.val),
                   exc |-> ""]

\* the exception `"choices" in response and len(response["choices"]) > 0` raises:
\* TypeError for a reply that is no container, for response["choices"] of a list
\* or str, and for len() of a value without length
has_choices_error(resp) ==
    IF ~IsContainer(resp) THEN "TypeError"
    ELSE IF ~Contains(resp, "choices") THEN ""
    ELSE IF resp.type # "dict" THEN "TypeError"
    ELSE IF ~IsContainer(resp.val["choices"]) THEN "TypeError"
    ELSE ""

\* the condition under which print_response renders choices, where it raises nothing
has_choices(resp) == Contains(resp, "choices") /\ PyLen(resp.val["choices"]) > 0

\* choice["message"]["content"] (chat) or choice["text"], or the exception raised
choice_content(choice, mode) ==
    IF mode = "chat"
    THEN IF SubscriptError(choice, "message") # ""
         THEN [val |-> JNull, exc |-> SubscriptError(choice, "message")]
         ELSE IF SubscriptError(choice.val["message"], "content") # ""
         THEN [val |-> JNull, exc |-> SubscriptError(choice.val["message"], "content")]
         ELSE [val |-> choice.val["message"].val["content"], exc |-> ""]
    ELSE IF SubscriptError(choice, "text") # ""
         THEN [val |-> JNull, exc |-> SubscriptError(choice, "text")]
         ELSE [val |-> choice.val["text"], exc |-> ""]

\* what print_response prints for choice i of n
choice_lines(choice, i, n, mode, show_metadata) ==
    LET content == choice_content(choice, mode)
    IN  IF content.exc # "" THEN Raised(<<>>, content.exc)
        ELSE Returned(
            (IF n > 1 THEN <<Line("banner", i)>> ELSE <<>>)
            \o <<Line("content", content.val)>>
            \o (IF show_metadata
                 THEN <<Line("finish_reason", DictGet(choice.val, "finish_reason", JStr("N/A")))>>
                      \o (IF "logprobs" \in DOMAIN choice.val /\ Truthy(choice.val["logprobs"])
                           THEN <<Line("logprobs_available", i)>> ELSE <<>>)
                 ELSE <<>>))

\* the loop over the first k items of the list `choices`
RECURSIVE choices_lines(_, _, _, _)
choices_lines(choices, k, mode, show_metadata) ==
    IF k = 0 THEN Returned(<<>>)
    ELSE LET before == choices_lines(choices, k - 1, mode, show_metadata)
             this == choice_lines(choices[k], k, Len(choices), mode, show_metadata)
         IN  IF before.exc # "" THEN before
             ELSE [out |-> before.out \o this.out, exc |-> this.exc]

\* the metadata block print_response appends under --show-metadata
metadata_lines(resp, elapsed) ==
    LET latency == <<Line("latency", request_latency(elapsed))>>
    IN  IF ~IsContainer(resp) THEN Raised(latency, "TypeError")
        ELSE IF ~Contains(resp, "usage") THEN Returned(latency)
        ELSE IF resp.type # "dict" THEN Raised(latency, "TypeError")
        ELSE IF resp.val["usage"].type # "dict" THEN Raised(latency, "AttributeError")
        ELSE LET usage == resp.val["usage"].val
                 ct == DictGet(usage, "completion_tokens", JInt(0))
             IN  IF ~IsNumber(ct) THEN Raised(latency, "TypeError")
                 ELSE Returned(
                     latency
                     \o (IF number_positive(ct) /\ float_positive(elapsed)
                          THEN <<Line("tokens_per_second",
                                      JFloat(FALSE, tokens_per_sec(ct, elapsed), 2))>>
                          ELSE <<>>)
                     \o <<Line("prompt_tokens", DictGet(usage, "prompt_tokens", JStr("N/A"))),
                          Line("completion_tokens", DictGet(usage, "completion_tokens", JStr("N/A"))),
                          Line("total_tokens", DictGet(usage, "total_tokens", JStr("N/A")))>>)

\* the choices part of print_response: iterating a dict or a str yields strings,
\* and subscripting a string with "text" or "message" raises TypeError
response_lines(resp, mode, show_metadata) ==
    IF has_choices_error(resp) # "" THEN Raised(<<>>, has_choices_error(resp))
    ELSE IF ~has_choices(resp) THEN Returned(<<Line("no_response", "No response generated")>>)
    ELSE IF resp.val["choices"].type # "list" THEN Raised(<<>>, "TypeError")
    ELSE choices_lines(resp.val["choices"].val, Len(resp.val["choices"].val), mode, show_metadata)

\* everything print_response prints, and the exception that ends it
print_response(resp, mode, elapsed, show_metadata) ==
    LET shown == response_lines(resp, mode, show_metadata)
        meta == metadata_lines(resp, elapsed)
    IN  IF shown.exc # "" \/ ~show_metadata THEN shown
        ELSE [out |-> shown.out \o meta.out, exc |-> meta.exc]

-----
(* prompt_llm.py: main *)

\* variant: tests `is None` where the code tests truthiness
missing_required_is_none(a) ==
    \/ a.mode = "completion" /\ a.prompt = None
    \/ a.mode = "chat" /\ a.user_message = None

\* the arguments main rejects after parsing
missing_required(a) ==
    \/ a.mode = "completion" /\ ~TruthyStr(a.prompt)
    \/ a.mode = "chat" /\ ~TruthyStr(a.user_message)

\* variant: raise_for_status is not called, only transport failures raise
raises_without_status_check(outcome) == outcome \in {"connection_error", "timeout"}

\* the outcomes of the POST that reach `except RequestException`
raises_request_exception(outcome) == outcome \in RequestFailures

Init ==
    /\ argv \in MainNamespaces
    /\ args = argv
    /\ server \in ServerBehaviours
    /\ pc = "parse"
    /\ requests = <<>>
    /\ output = <<>>
    /\ exit_code = None
    /\ response = None
    /\ elapsed_time = None
    /\ t_args = [skip_health |-> FALSE]
    /\ t_pc = "idle"
    /\ t_requests = <<>>
    /\ t_output = <<>>
    /\ results = <<>>
    /\ t_exit_code = None
    /\ t_server = <<>>

\* parse_args and the validation that follows it
main_validate ==
    /\ pc = "parse"
    /\ IF missing_required(args)
       THEN /\ output' = Append(output, Line("usage_error", args.mode))
            /\ exit_code' = Some(ArgparseErrorStatus)
            /\ pc' = "exited"
       ELSE /\ pc' = "configure"
            /\ UNCHANGED <<output, exit_code>>
    /\ UNCHANGED <<argv, args, requests, response, elapsed_time, server>>
    /\ UNCHANGED harnessVars

\* variant: warns but leaves the flag set
clear_stream_noop(a) == a

\* the --stream downgrade
clear_stream(a) == [a EXCEPT !.stream = FALSE]

\* the streaming warning and the configuration banner
main_configure ==
    /\ pc = "configure"
    /\ args' = IF args.stream THEN clear_stream(args) ELSE args
    /\ output' = output
                 \o (IF args.stream THEN <<Line("stream_warning", "Streaming is not implemented")>> ELSE <<>>)
                 \o (IF ~args.json THEN <<Line("config_banner", args.mode)>> ELSE <<>>)
    /\ pc' = "request"
    /\ UNCHANGED <<argv, requests, exit_code, response, elapsed_time, server>>
    /\ UNCHANGED harnessVars

\* requests.post, raise_for_status and response.json() inside prompt_completion / prompt_chat
post(base_url, endpoint, payload, pre) ==
    /\ requests' = Append(requests, [method |-> "POST", url |-> <<base_url, endpoint>>,
                                      json |-> payload, timeout |-> PromptTimeout])
    /\ IF raises_request_exception(server.outcome)
       THEN /\ output' = output \o pre \o <<Line("error", server.outcome)>>
            /\ exit_code' = Some(RequestErrorStatus)
            /\ pc' = "exited"
            /\ UNCHANGED <<response, elapsed_time>>
       ELSE IF server.outcome = "invalid_json"
       THEN \* requests.JSONDecodeError is a RequestException only in newer releases of
            \* requests; otherwise the ValueError leaves main as a traceback
            /\ \E kind \in {"error", "traceback"} :
                  output' = output \o pre \o <<Line(kind, server.outcome)>>
            /\ exit_code' = Some(RequestErrorStatus)
            /\ pc' = "exited"
            /\ UNCHANGED <<response, elapsed_time>>
       ELSE /\ output' = output \o pre
            /\ response' = Some(ServerBody(server, endpoint))
            /\ elapsed_time' = Some(FloatOfTicks(server.elapsed))
            /\ pc' = "display"
            /\ UNCHANGED exit_code

\* main's chat branch: the call of prompt_chat
prompt_chat ==
    /\ pc = "request"
    /\ args.mode = "chat"
    /\ LET kw == chat_kwargs(args)
           pre == IF ~args.json
                  THEN (IF TruthyStr(args.system) THEN <<Line("system", args.system[1])>> ELSE <<>>)
                       \o <<Line("user", args.user_message[1]), Line("assistant_header", "Assistant:")>>
                  ELSE <<>>
       IN  post(kw.base_url, "/v1/chat/completions", chat_payload(kw), pre)
    /\ UNCHANGED <<argv, args, server>>
    /\ UNCHANGED harnessVars

\* main's completion branch: the call of prompt_completion
prompt_completion ==
    /\ pc = "request"
    /\ args.mode # "chat"
    /\ LET kw == completion_kwargs(args)
           pre == IF ~args.json
                  THEN <<Line("prompt", args.prompt[1]), Line("response_header", "Response:")>>
                  ELSE <<>>
       IN  post(kw.base_url, "/v1/completions", completion_payload(kw), pre)
    /\ UNCHANGED <<argv, args, server>>
    /\ UNCHANGED harnessVars

\* main's --json branch
main_display_json ==
    /\ pc = "display"
    /\ args.json
    /\ LET doc == response_with_timing(response[1], elapsed_time[1])
       IN  IF doc.exc = ""
           THEN /\ output' = Append(output, Line("json", doc.val))
                /\ exit_code' = Some(0)
           ELSE /\ output' = Append(output, Line("traceback", doc.exc))
                /\ exit_code' = Some(UncaughtExceptionStatus)
    /\ pc' = "exited"
    /\ UNCHANGED <<argv, args, requests, response, elapsed_time, server>>
    /\ UNCHANGED harnessVars

\* main's human-readable branch
main_display_text ==
    /\ pc = "display"
    /\ ~args.json
    /\ LET printed == print_response(response[1], args.mode, elapsed_time[1], args.show_metadata)
       IN  IF printed.exc = ""
           THEN /\ output' = output \o printed.out \o <<Line("closing_banner", "=")>>
                /\ exit_code' = Some(0)
           ELSE /\ output' = output \o printed.out \o <<Line("traceback", printed.exc)>>
                /\ exit_code' = Some(UncaughtExceptionStatus)
    /\ pc' = "exited"
    /\ UNCHANGED <<argv, args, requests, response, elapsed_time, server>>
    /\ UNCHANGED harnessVars

Next ==
    \/ main_validate
    \/ main_configure
    \/ prompt_chat
    \/ prompt_completion
    \/ main_display_json
    \/ main_display_text

Spec == Init /\ [][Next]_vars

\* the prompt tool over every combination of the conditionally sent options
BuilderInit ==
    /\ argv \in BuilderNamespaces
    /\ args = argv
    /\ server \in BuilderServerBehaviours
    /\ pc = "parse"
    /\ requests = <<>>
    /\ output = <<>>
    /\ exit_code = None
    /\ response = None
    /\ elapsed_time = None
    /\ t_args = [skip_health |-> FALSE]
    /\ t_pc = "idle"
    /\ t_requests = <<>>
    /\ t_output = <<>>
    /\ results = <<>>
    /\ t_exit_code = None
    /\ t_server = <<>>

BuilderSpec == BuilderInit /\ [][Next]_vars

-----------------------------------------------------------------------------
(* test_llm_api.py *)

HealthTimeout == 5
ModelsTimeout == 5
CompletionTimeout == 30

Probes == {"Health", "List Models", "Chat Completion", "Text Completion"}

\* what the server does with a request to one endpoint:
\*   a RequestFailures member - requests.get/post or raise_for_status raises
\*   "invalid_json" - 2xx, the body is not JSON (response.json() raises)
\*   "missing"      - 2xx, a JSON object without the list the probe reads
\*   "empty"        - 2xx, the list is there and empty
\*   "malformed"    - 2xx, the first list item lacks the field the probe reads
\*   "ok"           - 2xx, a well-formed reply
ProbeOutcomes == RequestFailures \cup {"invalid_json", "missing", "empty", "malformed", "ok"}

\* the list the probe of an endpoint reads, and the item a well-formed reply holds
ListKey(endpoint) == IF endpoint = "/v1/models" THEN "data" ELSE "choices"
GoodItem(endpoint) ==
    IF endpoint = "/v1/models" THEN [id |-> DefaultModel, object |-> "model"]
    ELSE IF endpoint = "/v1/chat/completions"
    THEN [index |-> 0, finish_reason |-> "stop",
          message |-> [role |-> "assistant", content |-> "4"]]
    ELSE [index |-> 0, finish_reason |-> "stop", text |-> " Paris"]

\* the parsed body of a 2xx reply with valid JSON
ProbeBody(outcome, endpoint) ==
    ("object" :> "reply")
    @@ Entry(outcome # "missing", ListKey(endpoint),
             IF outcome = "empty" THEN <<>>
             ELSE IF outcome = "malformed" THEN <<[index |-> 0]>>
             ELSE <<GoodItem(endpoint)>>)

\* variant: the health probe passes whenever the server answers at all
health_result_any_reply(outcome) == outcome \notin {"connection_error", "timeout"}

\* test_health: True unless the GET or raise_for_status raises
health_result(outcome) == ~raises_request_exception(outcome)

\* test_list_models
list_models_result(outcome) ==
    IF raises_request_exception(outcome) \/ outcome = "invalid_json" THEN FALSE
    ELSE LET data == ProbeBody(outcome, "/v1/models")
         IN  IF "data" \in DOMAIN data /\ Len(data["data"]) > 0
             THEN "id" \in DOMAIN data["data"][1]
             ELSE FALSE

\* test_chat_completion
chat_completion_result(outcome) ==
    IF raises_request_exception(outcome) \/ outcome = "invalid_json" THEN FALSE
    ELSE LET data == ProbeBody(outcome, "/v1/chat/completions")
         IN  IF "choices" \in DOMAIN data /\ Len(data["choices"]) > 0
             THEN /\ "message" \in DOMAIN data["choices"][1]
                  /\ "content" \in DOMAIN data["choices"][1]["message"]
             ELSE FALSE

\* test_text_completion
text_completion_result(outcome) ==
    IF raises_request_exception(outcome) \/ outcome = "invalid_json" THEN FALSE
    ELSE LET data == ProbeBody(outcome, "/v1/completions")
         IN  IF "choices" \in DOMAIN data /\ Len(data["choices"]) > 0
             THEN "text" \in DOMAIN data["choices"][1]
             ELSE FALSE

\* sum(1 for _, success in results if success)
count_passed(rs) == Cardinality({i \in DOMAIN rs : rs[i][2]})

\* variant: succeeds as soon as one probe passed
exit_status_any_passed(passed, total) == IF passed > 0 THEN 0 ELSE 1

\* the status main passes to sys.exit
exit_status(passed, total) == IF passed = total THEN 0 ELSE 1

HarnessInit ==
    /\ t_args \in [skip_health : BOOLEAN]
    /\ t_server \in [Probes -> ProbeOutcomes]
    /\ t_pc = "health"
    /\ t_requests = <<>>
    /\ t_output = <<>>
    /\ results = <<>>
    /\ t_exit_code = None
    /\ argv = None
    /\ args = None
    /\ server = None
    /\ pc = "idle"
    /\ requests = <<>>
    /\ output = <<>>
    /\ exit_code = None
    /\ response = None
    /\ elapsed_time = None

\* one probe: its single request, the line it prints, and results.append((name, success))
run_probe(name, method, endpoint, timeout, success, next) ==
    /\ t_requests' = Append(t_requests, [method |-> method, url |-> <<DefaultUrl, endpoint>>,
                                          timeout |-> timeout])
    /\ t_output' = Append(t_output, Line(IF success THEN "probe_ok" ELSE "probe_failed", name))
    /\ results' = Append(results, <<name, success>>)
    /\ t_pc' = next
    /\ UNCHANGED <<t_args, t_exit_code, t_server>>
    /\ UNCHANGED promptVars

\* main: the optional health probe
test_health ==
    /\ t_pc = "health"
    /\ IF ~t_args.skip_health
       THEN run_probe("Health", "GET", "/health", HealthTimeout,
                      health_result(t_server["Health"]), "models")
       ELSE /\ t_pc' = "models"
            /\ UNCHANGED <<t_args, t_requests, t_output, results, t_exit_code, t_server>>
            /\ UNCHANGED promptVars

test_list_models ==
    /\ t_pc = "models"
    /\ run_probe("List Models", "GET", "/v1/models", ModelsTimeout,
                 list_models_result(t_server["List Models"]), "chat")

\* variant: the probe has no try/except, a failure ends the run with a traceback
test_chat_completion_uncaught ==
    /\ t_pc = "chat"
    /\ IF chat_completion_result(t_server["Chat Completion"])
       THEN run_probe("Chat Completion", "POST", "/v1/chat/completions", CompletionTimeout,
                      TRUE, "text")
       ELSE /\ t_requests' = Append(t_requests,
                    [method |-> "POST", url |-> <<DefaultUrl, "/v1/chat/completions">>,
                     timeout |-> CompletionTimeout])
            /\ t_output' = Append(t_output, Line("traceback", "Chat Completion"))
            /\ t_exit_code' = Some(1)
            /\ t_pc' = "exited"
            /\ UNCHANGED <<t_args, results, t_server>>
            /\ UNCHANGED promptVars

test_chat_completion ==
    /\ t_pc = "chat"
    /\ run_probe("Chat Completion", "POST", "/v1/chat/completions", CompletionTimeout,
                 chat_completion_result(t_server["Chat Completion"]), "text")

test_text_completion ==
    /\ t_pc = "text"
    /\ run_probe("Text Completion", "POST", "/v1/completions", CompletionTimeout,
                 text_completion_result(t_server["Text Completion"]), "summary")

\* main: the summary and sys.exit
test_summary ==
    /\ t_pc = "summary"
    /\ LET passed == count_passed(results)
           total == Len(results)
       IN  /\ t_output' = t_output
                  \o [i \in 1..Len(results) |->
                        Line(IF results[i][2] THEN "PASS" ELSE "FAIL", results[i][1])]
                  \o <<Line("total", <<passed, total>>)>>
           /\ t_exit_code' = Some(exit_status(passed, total))
    /\ t_pc' = "exited"
    /\ UNCHANGED <<t_args, t_requests, results, t_server>>
    /\ UNCHANGED promptVars

HarnessNext ==
    \/ test_health
    \/ test_list_models
    \/ test_chat_completion
    \/ test_text_completion
    \/ test_summary

HarnessSpec == HarnessInit /\ [][HarnessNext]_vars

-----------------------------------------------------------------------------
(* Properties *)

HasLine(out, kind) == \E i \in 1..Len(out) : out[i].kind = kind
CountLines(out, kind) == Cardinality({i \in 1..Len(out) : out[i].kind = kind})
Exited == pc = "exited" /\ exit_code # None
ExitedNonZero == Exited /\ exit_code[1] # 0

\* the command line lacks (or gives empty) the text its mode requires
RequiredTextMissing ==
    \/ argv.mode = "completion" /\ argv.prompt \in {None, Some("")}
    \/ argv.mode = "chat" /\ argv.user_message \in {None, Some("")}

\* C1: when completion mode lacks a non-empty --prompt, or chat mode lacks a
\* non-empty --user-message, the run issues no HTTP request in any state, and its
\* only step is the one that prints the usage error and exits with a non-zero status.
C1_ValidationBeforeNetwork ==
    RequiredTextMissing =>
        /\ requests = <<>>
        /\ response = None
        /\ pc \in {"parse", "exited"}
        /\ pc = "parse" => ENABLED main_validate
        /\ pc = "exited" => ExitedNonZero /\ HasLine(output, "usage_error")

C1_Witness ==
    /\ argv.mode = "completion" /\ argv.prompt = Some("")
    /\ argv.user_message = Some("u")
    /\ ExitedNonZero
    /\ requests = <<>>

-----------------------------------------------------------------------------

HarnessExited == t_pc = "exited" /\ t_exit_code # None

\* the probes a run executes, in order
ExecutedProbes ==
    (IF t_args.skip_health THEN <<>> ELSE <<"Health">>)
    \o <<"List Models", "Chat Completion", "Text Completion">>

\* the server makes the probe succeed: any 2xx reply for Health, a 2xx reply with a
\* well-formed, non-empty body for the others
ServerSatisfies(p) ==
    IF p = "Health" THEN t_server[p] \notin {"connection_error", "timeout", "http_error"}
    ELSE t_server[p] = "ok"

\* the (passed, total) pair of the summary line
SummaryLine == t_output[Len(t_output)]

\* C2: the harness exits with 0 exactly when every probe it executed succeeded, which
\* is exactly when the summary reads passed = total, and with 1 otherwise.
C2_ExitZeroIffAllPassed ==
    HarnessExited =>
        /\ t_exit_code[1] \in {0, 1}
        /\ t_exit_code[1] = 0 <=>
              \A i \in 1..Len(ExecutedProbes) : ServerSatisfies(ExecutedProbes[i])
        /\ SummaryLine.kind = "total"
        /\ t_exit_code[1] = 0 <=> SummaryLine.arg[1] = SummaryLine.arg[2]

C2_Witness ==
    /\ HarnessExited
    /\ ~t_args.skip_health
    /\ t_exit_code = Some(0)
    /\ Len(results) = 4

\* /health fails and the three other endpoints succeed
OnlyHealthFails ==
    /\ ~ServerSatisfies("Health")
    /\ \A p \in Probes \ {"Health"} : ServerSatisfies(p)

\* C3 as stated: with only /health failing the harness reports 3/4, or 3/3 under
\* --skip-health, and exits with 1 in both cases.
C3_Original ==
    (HarnessExited /\ OnlyHealthFails) =>
        /\ SummaryLine.arg = (IF t_args.skip_health THEN <<3, 3>> ELSE <<3, 4>>)
        /\ t_exit_code = Some(1)

\* C3 amended: with only /health failing the harness reports 3/4 and exits with 1;
\* under --skip-health it reports 3/3 and exits with 0.
C3_OnlyHealthFails ==
    (HarnessExited /\ OnlyHealthFails) =>
        /\ SummaryLine.kind = "total"
        /\ SummaryLine.arg = (IF t_args.skip_health THEN <<3, 3>> ELSE <<3, 4>>)
        /\ t_exit_code = (IF t_args.skip_health THEN Some(0) ELSE Some(1))

C3_Witness ==
    /\ HarnessExited
    /\ OnlyHealthFails
    /\ t_server["Health"] = "http_error"
    /\ ~t_args.skip_health
    /\ SummaryLine.arg = <<3, 4>>
    /\ t_exit_code = Some(1)

\* the endpoint and method each probe uses
ProbeEndpoint(p) ==
    CASE p = "Health" -> <<"GET", "/health">>
      [] p = "List Models" -> <<"GET", "/v1/models">>
      [] p = "Chat Completion" -> <<"POST", "/v1/chat/completions">>
      [] p = "Text Completion" -> <<"POST", "/v1/completions">>

\* C4: the probes run one after another in the order Health (unless skipped), List
\* Models, Chat Completion, Text Completion; each issues exactly one request and
\* records one (name, boolean) pair whatever the server did; a run that has not
\* exited can always take its next step, and the summary and the exit see all 4
\* results (3 under --skip-health).
C4_SequentialProbes ==
    /\ Len(results) <= Len(ExecutedProbes)
    /\ Len(t_requests) = Len(results)
    /\ \A i \in 1..Len(results) :
          /\ results[i][1] = ExecutedProbes[i]
          /\ results[i][2] \in BOOLEAN
          /\ <<t_requests[i].method, t_requests[i].url[2]>> = ProbeEndpoint(ExecutedProbes[i])
    /\ t_pc \in {"summary", "exited"} => Len(results) = Len(ExecutedProbes)
    /\ t_pc = "exited" => HarnessExited /\ SummaryLine.kind = "total"
    /\ t_pc # "exited" => ENABLED HarnessNext

C4_Witness ==
    /\ HarnessExited
    /\ t_server["List Models"] = "connection_error"
    /\ t_server["Chat Completion"] = "malformed"
    /\ t_server["Text Completion"] = "empty"
    /\ ~t_args.skip_health
    /\ Len(results) = 4
    /\ Len(t_requests) = 4

-----------------------------------------------------------------------------

\* the endpoint of the mode given on the command line
ModeEndpoint == IF argv.mode = "chat" THEN "/v1/chat/completions" ELSE "/v1/completions"

\* lines that render a response
Rendered ==
    \/ HasLine(output, "content")
    \/ HasLine(output, "no_response")
    \/ HasLine(output, "json")
    \/ HasLine(output, "latency")

\* the request got no reply, or a reply whose status raise_for_status rejects
RequestRejected ==
    \/ server.outcome \in {"connection_error", "timeout"}
    \/ server.status \in 400..599

\* the request got no reply, or a reply whose status is outside 2xx
RequestUnsuccessful ==
    \/ server.outcome \in {"connection_error", "timeout"}
    \/ server.status \notin 200..299

\* every request is the one POST to the endpoint of the mode, sent by a run that
\* passed validation
SinglePost ==
    /\ Len(requests) <= 1
    /\ \A i \in 1..Len(requests) :
          /\ requests[i].method = "POST"
          /\ requests[i].url = <<argv.url, ModeEndpoint>>
    /\ (~RequiredTextMissing /\ pc \in {"display", "exited"}) => Len(requests) = 1
    /\ pc \in {"parse", "configure", "request"} => requests = <<>>

\* the run has printed the error marker last and exited with a non-zero status,
\* without a response to render
FatalFailure ==
    /\ ExitedNonZero
    /\ output[Len(output)].kind = "error"
    /\ response = None
    /\ ~Rendered

-----------------------------------------------------------------------------

\* the payload of the request the run sent
SentPayload == requests[1].json
Sent == Len(requests) = 1
InPayload(field) == field \in DOMAIN SentPayload

\* C6: each of the eight optional fields is absent from the payload whenever its
\* own value is its default (top_k = -1, repetition_penalty = 1.0, stop unset,
\* best_of unset, logprobs unset, min_tokens = 0, use_beam_search = false,
\* length_penalty = 1.0), whatever the other fields are, in both modes.
C6_DefaultsOmitted ==
    Sent =>
        /\ argv.top_k = DefaultTopK => ~InPayload("top_k")
        /\ argv.repetition_penalty = DefaultRepetitionPenalty => ~InPayload("repetition_penalty")
        /\ argv.stop = None => ~InPayload("stop")
        /\ argv.best_of = None => ~InPayload("best_of")
        /\ argv.logprobs = None => ~InPayload("logprobs")
        /\ argv.min_tokens = DefaultMinTokens => ~InPayload("min_tokens")
        /\ ~argv.use_beam_search => ~InPayload("use_beam_search")
        /\ argv.length_penalty = DefaultLengthPenalty => ~InPayload("length_penalty")

\* C7 as stated: in completion mode best_of and logprobs are each in the payload when
\* set; in chat mode the payload holds neither.
C7_Original ==
    Sent =>
        /\ argv.mode = "completion" =>
              /\ argv.best_of # None => InPayload("best_of")
              /\ argv.logprobs # None => InPayload("logprobs")
        /\ argv.mode = "chat" => ~InPayload("best_of") /\ ~InPayload("logprobs")

\* C7 amended: best_of is sent in completion mode only, exactly when it is set to a
\* non-zero value; logprobs is sent in both modes, exactly when it is set to a
\* non-zero value; a field that is sent carries the value given.
C7_BestOfAndLogprobs ==
    Sent =>
        /\ InPayload("best_of") <=>
              (argv.mode = "completion" /\ argv.best_of \notin {None, Some(0)})
        /\ InPayload("logprobs") <=> argv.logprobs \notin {None, Some(0)}
        /\ InPayload("best_of") => SentPayload["best_of"] = argv.best_of[1]
        /\ InPayload("logprobs") => SentPayload["logprobs"] = argv.logprobs[1]

C7_Witness ==
    /\ Sent
    /\ argv.mode = "chat"
    /\ argv.best_of = Some(2) /\ argv.logprobs = Some(5)
    /\ ~InPayload("best_of")
    /\ InPayload("logprobs") /\ SentPayload["logprobs"] = 5

\* C8: when --stream is given, by the time the request can be sent the warning has
\* been printed and args.stream is False; the payload of every request sent has
\* stream = false.
C8_StreamDisabled ==
    /\ (argv.stream /\ (pc \in {"request", "display"} \/ requests # <<>>)) =>
          /\ HasLine(output, "stream_warning")
          /\ ~args.stream
    /\ \A i \in 1..Len(requests) : requests[i].json["stream"] = FALSE

C8_Witness ==
    /\ argv.stream
    /\ Sent
    /\ SentPayload["stream"] = FALSE
    /\ output[1].kind = "stream_warning"

\* the run got a JSON object as the reply and has ended
GotObject == pc = "exited" /\ response # None /\ server.outcome = "ok" /\ server.body = "object"

\* twice usage.completion_tokens of the reply where it is a number, 0 where the
\* reply has no usage object or no such count
ReplyCompletionHalves ==
    CASE server.usage.kind = "counts" -> 2 * server.usage.tokens
      [] server.usage.kind = "float_count" -> server.usage.tokens
      [] OTHER -> 0

\* the _timing object of the JSON document printed last
PrintedTiming == output[Len(output)].arg.val["_timing"].val

\* C9: under --json, for every reply object, the run ends without an exception
\* (status 0, the JSON document printed last) and _timing.tokens_per_second is the
\* quotient completion_tokens / elapsed seconds rounded to the nearest hundredth
\* when elapsed > 0 and completion_tokens > 0 (an integer or a float count), and
\* null in every other case, a reply with no usage object or no completion_tokens
\* count included.
C9_TokensPerSecond ==
    (GotObject /\ argv.json) =>
        /\ exit_code = Some(0)
        /\ output[Len(output)].kind = "json"
        /\ IF server.elapsed > 0 /\ ReplyCompletionHalves > 0
           THEN /\ PrintedTiming.tokens_per_second.type = "float"
                /\ PrintedTiming.tokens_per_second.digits = 2
                /\ LET v == PrintedTiming.tokens_per_second.val
                       d == v * server.elapsed - ReplyCompletionHalves * 50 * ClockResolution
                   IN  2 * d <= server.elapsed /\ 2 * (0 - d) <= server.elapsed
           ELSE PrintedTiming.tokens_per_second = JNull

\* the reply object has an empty choices list or no choices entry
NoChoices == server.choices \in {[kind |-> "absent", n |-> 0], [kind |-> "list", n |-> 0]}

\* C10: in both modes, for a reply whose choices list is empty or missing, the
\* human-readable renderer prints the failure notice once and no generated content,
\* and returns without raising: main prints its closing banner and ends with status 0.
C10_NoChoicesNotice ==
    (GotObject /\ ~argv.json /\ NoChoices) =>
        /\ CountLines(output, "no_response") = 1
        /\ ~HasLine(output, "content")
        /\ ~HasLine(output, "traceback")
        /\ output[Len(output)].kind = "closing_banner"
        /\ exit_code = Some(0)

-----------------------------------------------------------------------------

\* the roles of the messages of the payload sent, in order
SentRoles == [i \in 1..Len(SentPayload["messages"]) |-> SentPayload["messages"][i].role]

\* C11: in chat mode the messages array sent is [user] or [system, user]: the user
\* entry, carrying --user-message, is the only user entry and is last; a system
\* entry, carrying --system, is there exactly when --system was given a non-empty
\* text, and then comes first.
C11_ChatMessages ==
    (Sent /\ argv.mode = "chat") =>
        LET msgs == SentPayload["messages"]
            withSystem == argv.system \notin {None, Some("")}
        IN  /\ SentRoles = (IF withSystem THEN <<"system", "user">> ELSE <<"user">>)
            /\ msgs[Len(msgs)].content = argv.user_message[1]
            /\ withSystem => msgs[1].content = argv.system[1]

C11_Witness ==
    /\ Sent
    /\ argv.mode = "chat"
    /\ argv.system = Some("s")
    /\ SentRoles = <<"system", "user">>
    /\ SentPayload["messages"][1].content = "s"
    /\ SentPayload["messages"][2].content = "u"

\* C12: every request of a run with --min-tokens > 0 carries min_tokens with the
\* value given, in completion mode and in chat mode alike.
C12_MinTokensSent ==
    (Sent /\ argv.min_tokens > 0) =>
        /\ InPayload("min_tokens")
        /\ SentPayload["min_tokens"] = argv.min_tokens

\* the run got a success status and a JSON object without choices
SoftFailure == GotObject /\ server.status \in 200..299 /\ NoChoices

\* C13: the exit status does not depend on what the reply holds: a run whose reply
\* has a success status and no choices prints the failure notice and ends with
\* status 0, in both modes, in human-readable output and under --json.
C13_ExitIgnoresContent ==
    SoftFailure =>
        /\ HasLine(output, "no_response")
        /\ exit_code = Some(0)

=============================================================================
